---- MODULE Spec2Model ----
(***************************************************************************)
(* Model of the voice-ai-bot request orchestrator (app/bot.py), the        *)
(* conversation client (app/openai.py), the artifact store                 *)
(* (app/file_manager.py) and the process with its cleanup task             *)
(* (app/main.py).                                                          *)
(*                                                                         *)
(* Specifications: Spec, SpecSerial, FairSpec (requests on the event       *)
(* loop), SpecStore (the artifact store on its own), SpecClient (identity  *)
(* bootstrap and reply extraction), SpecPeriodic (requests next to the     *)
(* periodic sweep), SpecMain, FairMain (main and its cleanup task).        *)
(*                                                                         *)
(* A request is one run of handle_voice or handle_text.  The handlers are  *)
(* coroutines: an action below is the code between two suspension points   *)
(* (awaits), so that requests interleave exactly where the event loop can  *)
(* switch between them.  Each action is named after the awaited call it    *)
(* completes; it applies that call's outcome (drawn from the possible      *)
(* outcomes with \E) and then runs the handler up to the next await.       *)
(***************************************************************************)
EXTENDS Integers, Sequences, FiniteSets, TLC

VARIABLES
    req,            \* per dispatched handler: its frame (locals, position) and what it did
    user_threads,   \* VoiceAIBot.user_threads: user id -> conversation id
    files,          \* the regular files present in the scratch directory
    creates,        \* provider side: threads.create() calls served, per requesting user
    stamp,          \* number of response_<timestamp>.mp3 names handed out so far
    dispatched,     \* number of messages the dispatcher has handed to a handler
    age,            \* per file in the scratch directory: time.time() - st_mtime
    subdirs,        \* the entries of the scratch directory that are not regular files
    store,          \* the last direct call into the artifact store, and its outcome
    cleaner,        \* the periodic_cleanup task: its position and the time it has slept
    main,           \* main(): its position, and how start_polling ended
    provider,       \* provider side: the assistants and the messages of a conversation
    client          \* OpenAIClient: initialize_assistant and the reply last extracted

\* the provider's data and the client's bootstrap
api == <<provider, client>>

\* the state that handle_voice / handle_text never touch
rest == <<subdirs, store, cleaner, main, api>>

vars == <<req, user_threads, files, creates, stamp, dispatched, age, rest>>

\* Python's None, for the values modelled as strings
None == "None"
\* thread_id: str | None = None; conversation ids are 1, 2, ... in creation order
NoThread == 0
\* voice_file_path = None / answer_file_path = None
NoPath == <<>>
\* no exception
NoError == [cls |-> "None", msg |-> <<>>]

----------------------------------------------------------------------------
(* Bounds of the model *)

\* messages dispatched in one behaviour
MaxRequests == 2
\* a wait is followed for this many seconds
MaxClock == 90
\* with the sweep in the picture, time passes in steps of PassSecs seconds
PassSecs == 900
\* the age of a file is followed up to MaxAge seconds
MaxAge == 900
\* messages in a conversation whose reply is extracted
MaxMessages == 3
\* granularity of the clock: time passes in steps of TickSecs seconds
TickSecs == 30

\* handler invocations that can be in flight at the same time
Req == {"r1", "r2"}
\* message.from_user.id
Users == {1}
\* message.voice.file_id
FileIds == {"f1"}
Kinds == {"voice", "text"}

----------------------------------------------------------------------------
(* Program constants *)

\* _wait_for_run_completion(..., timeout: int = 60)
Timeout == 60
\* await asyncio.sleep(1)
SleepSecs == 1

\* run_status.status values the provider can report
Statuses == {"in_progress", "completed", "failed", "cancelled", "expired"}

----------------------------------------------------------------------------
(* Exceptions: a class and a message.  The message is a sequence of words. *)

Classes == {"BaseException", "Exception", "OpenAIServiceError",
            "OpenAIRateLimitError", "OpenAITimeoutError",
            "asyncio.TimeoutError", "APIError", "TelegramAPIError",
            "UnboundLocalError", "PermissionError", "RuntimeError",
            "CancelledError"}

\* class X(Base): the direct base class of each exception class
Parent(c) ==
    CASE c = "OpenAIServiceError" -> "Exception"
      [] c = "OpenAIRateLimitError" -> "OpenAIServiceError"
      [] c = "OpenAITimeoutError" -> "OpenAIServiceError"
      [] c = "Exception" -> "BaseException"
      [] c = "CancelledError" -> "BaseException"
      [] OTHER -> "Exception"

RECURSIVE IsInstance(_, _)
\* isinstance(e, base), which is what an except clause tests
IsInstance(c, base) ==
    \/ c = base
    \/ c # "BaseException" /\ IsInstance(Parent(c), base)

\* str.lower() on one word
LowerWord(w) ==
    CASE w = "Rate_Limit" -> "rate_limit"
      [] w = "RATE_LIMIT" -> "rate_limit"
      [] w = "Too" -> "too"
      [] w = "Many" -> "many"
      [] w = "Requests" -> "requests"
      [] w = "Internal" -> "internal"
      [] OTHER -> w

\* str(e).lower()
Lower(msg) == [i \in DOMAIN msg |-> LowerWord(msg[i])]

\* needle in text, both sequences of words
Contains(text, needle) ==
    \E i \in 1..Len(text) :
        /\ i + Len(needle) - 1 <= Len(text)
        /\ \A j \in 1..Len(needle) : text[i + j - 1] = needle[j]

\* messages a provider or transport failure can carry
Messages == { <<"Internal", "server", "error">>,
              <<"Rate_Limit", "reached">>,
              <<"429", "Too", "Many", "Requests">>,
              <<"too", "many", "retries">> }

\* what the OpenAI client calls can raise
ProviderFaults ==
    [cls : {"APIError"}, msg : Messages]
        \cup [cls : {"asyncio.TimeoutError"}, msg : {<<"Rate_Limit", "reached">>}]
\* what the aiogram calls can raise
TransportFaults == [cls : {"TelegramAPIError"}, msg : {<<"Internal", "server", "error">>}]

----------------------------------------------------------------------------
(* Artifact store *)

\* FileManager.get_voice_path: temp_dir / f'voice_{user_id}_{file_id}.ogg'
get_voice_path(user_id, file_id) == <<"voice", user_id, file_id>>

\* text_to_speech: temp_dir / f'response_{timestamp}.mp3'; the n-th call gets the
\* n-th timestamp (datetime.now() at microsecond resolution, read once per call)
response_path(n) == <<"response", n>>

Paths == {get_voice_path(u, f) : u \in Users, f \in FileIds}
            \cup {response_path(n) : n \in 1..(MaxRequests + 1)}

\* FileManager.delete_file: unlink when the file exists; an unlink that raises
\* is logged and swallowed, and the file stays
delete_file(fs, file_path, unlink_raises) ==
    IF file_path \in fs /\ ~unlink_raises THEN fs \ {file_path} ELSE fs

\* the ages of the files that are there; a path that names no file has none
Present(ages, fs) == [p \in DOMAIN ages |-> IF p \in fs THEN ages[p] ELSE 0]

\* cleanup_old_files(self, max_age_seconds: int = 600)
max_age_seconds == 600

\* sub-directories that can lie in the scratch directory
Subdirs == {<<"dir", 1>>}

\* file_path.is_file()
is_file(entry, fs) == entry \in fs

\* as if the sweep compared with >=
FileIsOldInclusive(file_age, max_age) == file_age >= max_age

\* cleanup_old_files: `if file_age > max_age_seconds:`
FileIsOld(file_age, max_age) == file_age > max_age

\* as if delete_file let the exception of unlink() pass
delete_file_except_none(cls) == cls

\* delete_file: `except Exception as e:` logs and swallows; the class of the
\* exception that leaves delete_file when unlink() raised cls
delete_file_except(cls) == IF IsInstance(cls, "Exception") THEN None ELSE cls

\* the orders in which glob('*') can yield the entries S
Perms(S) ==
    {s \in [1..Cardinality(S) -> S] : \A i, j \in DOMAIN s : s[i] = s[j] => i = j}

RECURSIVE Scan(_, _, _, _, _, _)
\* cleanup_old_files, the body of the for loop over the entries glob yields:
\* acc holds the files left, deleted_count, the entries on which stat() or
\* unlink() raised, and whether an exception has left the loop
Scan(listing, ages, max_age, stat_raises, unlink_raises, acc) ==
    IF listing = <<>> \/ acc.aborted THEN acc
    ELSE LET file_path == Head(listing)
             others    == Tail(listing)
         IN  IF ~is_file(file_path, acc.files)
             THEN Scan(others, ages, max_age, stat_raises, unlink_raises, acc)
             ELSE IF file_path \in stat_raises
             THEN [acc EXCEPT !.aborted = TRUE, !.failed = @ \cup {file_path}]
             ELSE IF FileIsOld(ages[file_path], max_age)
             THEN Scan(others, ages, max_age, stat_raises, unlink_raises,
                       [acc EXCEPT
                           !.files = delete_file(@, file_path, file_path \in unlink_raises),
                           !.deleted_count = @ + 1,
                           !.failed = IF file_path \in unlink_raises
                                      THEN @ \cup {file_path} ELSE @])
             ELSE Scan(others, ages, max_age, stat_raises, unlink_raises, acc)

\* FileManager.cleanup_old_files: glob yields the first `yielded` entries of
\* listing (all of them, or it raises before the next one); an exception out
\* of the loop is logged and the count so far is returned
cleanup_old_files(fs, ages, max_age, listing, yielded, stat_raises, unlink_raises) ==
    LET acc == Scan(SubSeq(listing, 1, yielded), ages, max_age, stat_raises,
                    unlink_raises,
                    [files |-> fs, deleted_count |-> 0, failed |-> {},
                     aborted |-> FALSE])
    IN  [ files |-> acc.files, count |-> acc.deleted_count,
          failed |-> acc.failed,
          dir_error |-> ~acc.aborted /\ yielded < Len(listing) ]

\* periodic_cleanup(bot, sleep: int = 3600)
sleep == 3600

\* the periodic_cleanup task as asyncio.create_task made it: not yet run
Created == [pc |-> "created", slept |-> 0]

\* main() awaits bot.start_polling()
Polling == [pc |-> "start_polling", exit |-> None]

\* as if main() cancelled the task after the try block, without `finally`
MainExitNoFinally(exit) ==
    [ cancelled |-> exit = "returned" \/ IsInstance(exit, "Exception"),
      escaped |-> IF exit = "returned" \/ IsInstance(exit, "Exception")
                  THEN None ELSE exit ]

\* main(): start_polling returned or raised exit; `except Exception` logs, the
\* finally block cancels the cleanup task; what leaves main()
MainExit(exit) ==
    [ cancelled |-> TRUE,
      escaped |-> IF exit = "returned" \/ IsInstance(exit, "Exception")
                  THEN None ELSE exit ]

\* no call into the artifact store yet
NoCall ==
    [ op |-> None, turn |-> 0, path |-> NoPath, count |-> 0, failed |-> {},
      dir_error |-> FALSE, escaped |-> None ]

----------------------------------------------------------------------------
(* Conversation client: the decisions of respond() and its helpers *)

\* as if respond created a conversation on every call
NeedsThreadAlways(thread_id) == TRUE

\* respond: `if not thread_id:`
NeedsThread(thread_id) == thread_id = NoThread

\* _wait_for_run_completion: `if time.time() - start_time > timeout:`, where
\* elapsed is time.time() - start_time
DeadlinePassed(elapsed, timeout) == elapsed > timeout

\* _wait_for_run_completion: `if run_status.status == 'completed':`
RunCompleted(status) == status = "completed"

\* as if 'expired' were missing from the list of failed statuses
RunFailedNoExpired(status) == status \in {"failed", "cancelled"}

\* _wait_for_run_completion: `if run_status.status in ['failed', 'cancelled', 'expired']:`
RunFailed(status) == status \in {"failed", "cancelled", "expired"}

\* respond: `'rate_limit' in str(e).lower() or 'too many requests' in str(e).lower()`
IsRateLimit(msg) ==
    \/ Contains(Lower(msg), <<"rate_limit">>)
    \/ Contains(Lower(msg), <<"too", "many", "requests">>)

\* respond: the except clauses, in order; the class of the exception that leaves
\* respond() when e was raised inside its try block
RespondExcept(e) ==
    IF IsInstance(e.cls, "asyncio.TimeoutError") THEN "OpenAITimeoutError"
    ELSE IF IsInstance(e.cls, "Exception")
         THEN IF IsRateLimit(e.msg) THEN "OpenAIRateLimitError"
              ELSE "OpenAIServiceError"
         ELSE e.cls

\* speech_to_text: `except Exception as e: raise OpenAIServiceError(...)`
SpeechToTextExcept(e) ==
    IF IsInstance(e.cls, "Exception") THEN "OpenAIServiceError" ELSE e.cls

\* text_to_speech: `except Exception as e: raise OpenAIServiceError(...)`
TextToSpeechExcept(e) ==
    IF IsInstance(e.cls, "Exception") THEN "OpenAIServiceError" ELSE e.cls

\* the exceptions _wait_for_run_completion raises itself
WaitTimeoutError == [cls |-> "OpenAITimeoutError", msg |-> <<"wait", "exceeded", "timeout">>]
WaitStatusError(status) == [cls |-> "OpenAIServiceError", msg |-> <<"run", "status", status>>]

----------------------------------------------------------------------------
(* Conversation client: identity bootstrap and reply extraction.  A string
   is a sequence of tokens. *)

\* initialize_assistant: name='tg-ai-voice-bot'
AssistantName == "tg-ai-voice-bot"

\* self.assistant_id = None; the provider's assistant ids are 1, 2, ...
NoAssistant == 0

\* assistants.list(limit=...): the provider's assistants, newest first, cut to
\* the page size
assistants_list(all, limit) ==
    SubSeq(all, 1, IF Len(all) < limit THEN Len(all) ELSE limit)

\* initialize_assistant:
\* `if assistants.data and assistants.data[0].name == 'tg-ai-voice-bot':`
FoundExisting(data) == data # <<>> /\ data[1].name = AssistantName

\* no reply extracted yet
NoReply ==
    [ called |-> FALSE, given |-> NoThread, cause |-> NoError, text |-> <<>>,
      thread_id |-> NoThread, escaped |-> None ]

\* OpenAIClient.__init__: self.assistant_id = None; main() awaits
\* initialize_assistant, which awaits assistants.list
Booting ==
    [ pc |-> "assistants_list", assistant_id |-> NoAssistant, created |-> 0,
      escaped |-> None, reply |-> NoReply ]

\* a provider that holds the bot's assistant, and a client that has found it
Provided ==
    [ assistants |-> <<[id |-> 1, name |-> AssistantName]>>, messages |-> <<>> ]
Ready == [Booting EXCEPT !.pc = "ready", !.assistant_id = 1]

\* s[::-1]
Reverse(s) == [i \in 1..Len(s) |-> s[Len(s) + 1 - i]]

\* threads.messages.list(thread_id=...): the messages of the conversation, which
\* the provider keeps in the order they were added, returned newest first
messages_list(conversation) == Reverse(conversation)

\* as if the loop ran over the messages from the last to the first
scan_order_reversed(data) == Reverse(data)

\* _extract_assistant_response: `for message in messages.data:`
scan_order(data) == data

\* hasattr(content, 'text')
HasText(content) == content.type = "text"

\* [content.text.value for content in message.content if hasattr(content, 'text')]
content_texts(content) ==
    LET with_text == SelectSeq(content, HasText)
    IN  [i \in 1..Len(with_text) |-> with_text[i].value]

RECURSIVE join(_, _)
\* sep.join(texts)
join(sep, texts) ==
    IF texts = <<>> THEN <<>>
    ELSE IF Len(texts) = 1 THEN texts[1]
    ELSE texts[1] \o sep \o join(sep, Tail(texts))

\* the fixed reply when the conversation holds no assistant message
FallbackText == <<"no", " ", "answer">>

RECURSIVE FirstAssistantText(_)
\* _extract_assistant_response, the loop: the joined texts of the first message
\* with role 'assistant', or the fallback after the loop
FirstAssistantText(ordered) ==
    IF ordered = <<>> THEN FallbackText
    ELSE IF Head(ordered).role = "assistant"
         THEN join(<<" ">>, content_texts(Head(ordered).content))
         ELSE FirstAssistantText(Tail(ordered))

\* _extract_assistant_response(thread_id), given what messages.list returned
extract_assistant_response(data, thread_id) ==
    [text |-> FirstAssistantText(scan_order(data)), thread_id |-> thread_id]

----------------------------------------------------------------------------
(* Request orchestrator: the decisions of handle_voice / handle_text *)

\* as if the handlers had no `except Exception` clause
ExceptClauseNoGeneric(cls) ==
    IF IsInstance(cls, "OpenAIRateLimitError") THEN "rate_limit"
    ELSE IF IsInstance(cls, "OpenAITimeoutError") THEN "timeout"
    ELSE "uncaught"

\* the except clauses of handle_voice and handle_text, in order
ExceptClause(cls) ==
    IF IsInstance(cls, "OpenAIRateLimitError") THEN "rate_limit"
    ELSE IF IsInstance(cls, "OpenAITimeoutError") THEN "timeout"
    ELSE IF IsInstance(cls, "Exception") THEN "generic"
    ELSE "uncaught"

\* _handle_rate_limit_error / _handle_timeout_error / _handle_generic_error:
\* each sends one MessageText.error message
ApologiesSent(branch) == IF branch = "uncaught" THEN 0 ELSE 1

\* a handler frame before the dispatcher has started it
Idle ==
    [ pc |-> "idle", kind |-> None, user_id |-> 0, file_id |-> None,
      \* locals of handle_voice / handle_text
      msg_deleted |-> "unbound", voice_file_path |-> NoPath,
      answer_file_path |-> NoPath,
      \* _get_response / respond
      param |-> NoThread, thread_id |-> NoThread, created |-> 0,
      \* _wait_for_run_completion
      \* elapsed: time.time() - start_time; slept: the time spent in the
      \* current asyncio.sleep; status: run_status.status; wait: how the
      \* wait stands or ended
      elapsed |-> 0, slept |-> 0, status |-> None, wait |-> None,
      \* text_to_speech / _create_and_send_voice
      filepath |-> NoPath,
      \* the exception being handled: the failing step, what was raised inside it,
      \* the class that reached the handler, the except clause that took it
      op |-> None, cause |-> NoError, raised |-> None, branch |-> None,
      \* what the request did, as the user and the artifact store saw it
      msg_deletes |-> 0, heard |-> 0, apologies |-> 0, voices |-> 0,
      made |-> {}, dels |-> <<>>,
      \* how the handler ended: "returned", or "raised" with the escaping class
      result |-> None, escaped |-> None ]

InFlight(r) == req[r].pc # "idle"

\* the frames are interchangeable: the dispatcher takes the first free one
LeastFree ==
    IF ~InFlight("r1") THEN "r1" ELSE IF ~InFlight("r2") THEN "r2" ELSE None

\* A handler that has ended is taken off the event loop before anything else
\* runs: the state in which it stands ended is there to show what it did.
NoneEnded == \A r \in Req : req[r].pc # "done"

\* handler r is suspended in the await named by label, and can be resumed
At(r, label) == NoneEnded /\ req[r].pc = label

\* the handler has ended: its frame is gone, what it did stays on record
Ended(rec, result, escaped) ==
    [ Idle EXCEPT !.pc = "done", !.kind = rec.kind, !.user_id = rec.user_id,
                  !.file_id = rec.file_id, !.op = rec.op,
                  !.msg_deletes = rec.msg_deletes, !.heard = rec.heard,
                  !.apologies = rec.apologies, !.voices = rec.voices,
                  !.made = rec.made, !.dels = rec.dels,
                  !.result = result, !.escaped = escaped ]

\* an exception of class cls, raised by step op from cause, reaches the try
\* block of the handler: the matching except clause is entered, and its
\* `await message.answer(...)` is the next suspension point
Except(rec, op, cause, cls) ==
    [ rec EXCEPT !.pc = "except", !.op = op, !.cause = cause, !.raised = cls,
                 !.branch = ExceptClause(cls) ]

\* respond() is left, by return or by raise into the handler's except clause
\* that has run: the frames of respond and _wait_for_run_completion are gone
RespondLeft(rec) ==
    [rec EXCEPT !.wait = None, !.status = None, !.cause = NoError]

\* an exception raised inside respond()'s try block
RespondRaise(rec, cause) == Except(rec, "respond", cause, RespondExcept(cause))

\* handle_voice, the finally block (it holds no suspension point whose outcome
\* matters: delete_file never suspends): reading msg_deleted before line 64
\* assigned it raises UnboundLocalError
FinallyVoice(rec, fs, raises1, raises2) ==
    IF rec.msg_deleted = "unbound"
    THEN [rec |-> Ended(rec, "raised", "UnboundLocalError"), files |-> fs]
    ELSE LET v   == rec.voice_file_path
             a   == rec.answer_file_path
             fs1 == IF v # NoPath THEN delete_file(fs, v, raises1) ELSE fs
             d1  == IF v # NoPath THEN Append(rec.dels, v) ELSE rec.dels
             fs2 == IF a # NoPath THEN delete_file(fs1, a, raises2) ELSE fs1
             d2  == IF a # NoPath THEN Append(d1, a) ELSE d1
             out == [rec EXCEPT !.dels = d2]
         IN  [rec |-> IF rec.branch = "uncaught"
                      THEN Ended(out, "raised", rec.raised)
                      ELSE Ended(out, "returned", None),
              files |-> fs2]

\* the finally block is reached: handle_voice runs it through, handle_text
\* suspends in `await msg.delete()`
Finally(rec, fs, raises1, raises2) ==
    IF rec.kind = "voice"
    THEN FinallyVoice(rec, fs, raises1, raises2)
    ELSE [rec |-> [rec EXCEPT !.pc = "finally_msg_delete"], files |-> fs]

\* as if _process_and_respond went on to _create_and_send_voice without
\* awaiting _get_response
EnterRespondSkipped(rec, registry) ==
    [rec EXCEPT !.pc = "speech_create"]

\* _process_and_respond -> _get_response -> respond, up to its first await:
\* the registry is read and handed to respond as thread_id
EnterRespond(rec, registry) ==
    LET thread_id == registry[rec.user_id]
    IN  [ rec EXCEPT !.param = thread_id, !.thread_id = thread_id,
                     !.pc = IF NeedsThread(thread_id) THEN "threads_create"
                            ELSE "messages_create" ]

\* _wait_for_run_completion is left, by return or by raise: its locals are gone
WaitExit(rec, how) ==
    [rec EXCEPT !.wait = how, !.elapsed = 0, !.slept = 0]

\* _wait_for_run_completion, the head of the loop: raise on the deadline, else
\* call runs.retrieve
LoopHead(rec) ==
    IF DeadlinePassed(rec.elapsed, Timeout)
    THEN RespondRaise(WaitExit(rec, "timeout"), WaitTimeoutError)
    ELSE [rec EXCEPT !.pc = "runs_retrieve"]

----------------------------------------------------------------------------
(* The state after construction: no handler running, an empty registry
   (self.user_threads = {}), an empty scratch directory *)

Init ==
    /\ req = [r \in Req |-> Idle]
    /\ user_threads = [u \in Users |-> NoThread]
    /\ files = {}
    /\ creates = [u \in Users |-> 0]
    /\ stamp = 0
    /\ dispatched = 0
    /\ age = [p \in Paths |-> 0]
    /\ subdirs = {}
    /\ store = NoCall
    /\ cleaner = Created
    /\ main = Polling
    /\ provider = Provided
    /\ client = Ready

----------------------------------------------------------------------------
(* handle_voice / handle_text *)

\* The dispatcher hands a message to handle_voice or handle_text in a free
\* frame; the handler posts the "processing" placeholder and runs up to its
\* next await: bot.get_file/download_file (voice) or the first call of
\* respond (text).
Dispatch(r, u, k, f) ==
    /\ NoneEnded
    /\ r = LeastFree
    /\ dispatched < MaxRequests
    /\ dispatched' = dispatched + 1
    /\ LET rec == [Idle EXCEPT !.kind = k, !.user_id = u,
                               !.file_id = IF k = "voice" THEN f ELSE None]
       IN  req' = [req EXCEPT ![r] =
                      IF k = "voice" THEN [rec EXCEPT !.pc = "download"]
                      ELSE EnterRespond(rec, user_threads)]
    /\ UNCHANGED <<user_threads, files, creates, stamp>>
    /\ UNCHANGED <<age, rest>>

\* _download_voice_message: the voice file is written to get_voice_path, or the
\* transport raises; then _transcribe_voice opens the file and awaits
\* speech_to_text
DownloadVoiceMessage(r) ==
    /\ At(r, "download")
    /\ LET rec  == req[r]
           path == get_voice_path(rec.user_id, rec.file_id)
       IN  \/ /\ files' = files \cup {path}
              /\ age' = [age EXCEPT ![path] = 0]
              /\ req' = [req EXCEPT ![r] =
                            [rec EXCEPT !.voice_file_path = path,
                                        !.made = @ \cup {path},
                                        !.pc = "speech_to_text"]]
           \/ /\ \E e \in TransportFaults :
                    req' = [req EXCEPT ![r] = Except(rec, "download", e, e.cls)]
              /\ UNCHANGED <<files, age>>
    /\ UNCHANGED <<user_threads, creates, stamp, dispatched>>
    /\ UNCHANGED rest

\* speech_to_text returns the transcription, or wraps the provider's failure;
\* then handle_voice awaits message.answer(heard)
SpeechToText(r) ==
    /\ At(r, "speech_to_text")
    /\ LET rec == req[r]
       IN  \/ req' = [req EXCEPT ![r] = [rec EXCEPT !.pc = "answer_heard"]]
           \/ \E e \in ProviderFaults :
                 req' = [req EXCEPT ![r] =
                            Except(rec, "speech_to_text", e, SpeechToTextExcept(e))]
    /\ UNCHANGED <<user_threads, files, creates, stamp, dispatched>>
    /\ UNCHANGED <<age, rest>>

\* message.answer(MessageText.heard...) shows the transcription, or the transport
\* raises; then handle_voice awaits msg.delete()
AnswerHeard(r) ==
    /\ At(r, "answer_heard")
    /\ LET rec == req[r]
       IN  \/ req' = [req EXCEPT ![r] = [rec EXCEPT !.heard = @ + 1, !.pc = "msg_delete"]]
           \/ \E e \in TransportFaults :
                 req' = [req EXCEPT ![r] = Except(rec, "answer_heard", e, e.cls)]
    /\ UNCHANGED <<user_threads, files, creates, stamp, dispatched>>
    /\ UNCHANGED <<age, rest>>

\* msg.delete() removed the placeholder; msg_deleted = True; then
\* _process_and_respond runs up to the first call of respond
MsgDelete(r) ==
    /\ At(r, "msg_delete")
    /\ req' = [req EXCEPT ![r] =
                  EnterRespond([req[r] EXCEPT !.msg_deletes = @ + 1,
                                              !.msg_deleted = "True"],
                               user_threads)]
    /\ UNCHANGED <<user_threads, files, creates, stamp, dispatched>>
    /\ UNCHANGED <<age, rest>>

----------------------------------------------------------------------------
(* OpenAIClient.respond, as called from _get_response *)

RECURSIVE Total(_, _)
\* the number of conversations the provider has created so far
Total(count, S) ==
    IF S = {} THEN 0
    ELSE LET u == CHOOSE x \in S : TRUE IN count[u] + Total(count, S \ {u})

\* threads.create() returned a new conversation, or raised
ThreadsCreate(r) ==
    /\ At(r, "threads_create")
    /\ LET rec == req[r]
       IN  \/ /\ creates' = [creates EXCEPT ![rec.user_id] = @ + 1]
              /\ req' = [req EXCEPT ![r] =
                            [rec EXCEPT !.thread_id = Total(creates, Users) + 1,
                                        !.created = @ + 1,
                                        !.pc = "messages_create"]]
           \/ /\ \E e \in ProviderFaults :
                    req' = [req EXCEPT ![r] = RespondRaise(rec, e)]
              /\ UNCHANGED creates
    /\ UNCHANGED <<user_threads, files, stamp, dispatched>>
    /\ UNCHANGED <<age, rest>>

\* threads.messages.create() appended the user's message, or raised
MessagesCreate(r) ==
    /\ At(r, "messages_create")
    /\ LET rec == req[r]
       IN  \/ req' = [req EXCEPT ![r] = [rec EXCEPT !.pc = "runs_create"]]
           \/ \E e \in ProviderFaults :
                 req' = [req EXCEPT ![r] = RespondRaise(rec, e)]
    /\ UNCHANGED <<user_threads, files, creates, stamp, dispatched>>
    /\ UNCHANGED <<age, rest>>

\* threads.runs.create() started the run, or raised; then
\* _wait_for_run_completion starts: start_time = time.time(), first loop head
RunsCreate(r) ==
    /\ At(r, "runs_create")
    /\ LET rec == req[r]
       IN  \/ req' = [req EXCEPT ![r] =
                         LoopHead([rec EXCEPT !.elapsed = 0, !.wait = "polling"])]
           \/ \E e \in ProviderFaults :
                 req' = [req EXCEPT ![r] = RespondRaise(rec, e)]
    /\ UNCHANGED <<user_threads, files, creates, stamp, dispatched>>
    /\ UNCHANGED <<age, rest>>

\* threads.runs.retrieve() reported a status, or raised: return on completed
\* (then _extract_assistant_response awaits messages.list), raise on a failed
\* run, else await asyncio.sleep(1)
RunsRetrieve(r) ==
    /\ At(r, "runs_retrieve")
    /\ LET rec == req[r]
       IN  \/ \E s \in Statuses :
                 LET seen == [rec EXCEPT !.status = s]
                 IN  req' = [req EXCEPT ![r] =
                        IF RunCompleted(s)
                        THEN [WaitExit(seen, "completed") EXCEPT !.pc = "messages_list"]
                        ELSE IF RunFailed(s)
                        THEN RespondRaise(WaitExit(seen, "failed"), WaitStatusError(s))
                        ELSE [seen EXCEPT !.slept = 0, !.pc = "sleep"]]
           \/ \E e \in ProviderFaults :
                 req' = [req EXCEPT ![r] = RespondRaise(WaitExit(rec, "raised"), e)]
    /\ UNCHANGED <<user_threads, files, creates, stamp, dispatched>>
    /\ UNCHANGED <<age, rest>>

\* asyncio.sleep(1) is over, which takes at least that long; next loop head
Sleep(r) ==
    /\ At(r, "sleep")
    /\ req[r].slept >= SleepSecs
    /\ req' = [req EXCEPT ![r] = LoopHead(req[r])]
    /\ UNCHANGED <<user_threads, files, creates, stamp, dispatched>>
    /\ UNCHANGED <<age, rest>>

\* _extract_assistant_response: messages.list() returned, or raised.  respond
\* returns (response, thread_id); _get_response stores thread_id in the
\* registry; text_to_speech computes its file name and awaits speech.create
MessagesList(r) ==
    /\ At(r, "messages_list")
    /\ LET rec == req[r]
       IN  \/ /\ user_threads' = [user_threads EXCEPT ![rec.user_id] = rec.thread_id]
              /\ stamp' = stamp + 1
              /\ req' = [req EXCEPT ![r] =
                            [RespondLeft(rec) EXCEPT !.filepath = response_path(stamp + 1),
                                                     !.pc = "speech_create"]]
           \/ /\ \E e \in ProviderFaults :
                    req' = [req EXCEPT ![r] = RespondRaise(rec, e)]
              /\ UNCHANGED <<user_threads, stamp>>
    /\ UNCHANGED <<files, creates, dispatched>>
    /\ UNCHANGED <<age, rest>>

----------------------------------------------------------------------------
(* _create_and_send_voice *)

\* text_to_speech: audio.speech.create() and aread() returned and the audio was
\* written to filepath, or a failure was wrapped; then answer_voice is awaited
SpeechCreate(r) ==
    /\ At(r, "speech_create")
    /\ LET rec == req[r]
       IN  \/ /\ files' = files \cup {rec.filepath}
              /\ age' = [age EXCEPT ![rec.filepath] = 0]
              /\ req' = [req EXCEPT ![r] =
                            [rec EXCEPT !.made = @ \cup {rec.filepath},
                                        !.pc = "answer_voice"]]
           \/ /\ \E e \in ProviderFaults :
                    req' = [req EXCEPT ![r] =
                               Except(rec, "text_to_speech", e, TextToSpeechExcept(e))]
              /\ UNCHANGED <<files, age>>
    /\ UNCHANGED <<user_threads, creates, stamp, dispatched>>
    /\ UNCHANGED rest

\* message.answer_voice() uploaded the reply, or the transport raised.  On
\* success _process_and_respond returns the path, answer_file_path is assigned
\* and the finally block is reached.
AnswerVoice(r) ==
    /\ At(r, "answer_voice")
    /\ LET rec == req[r]
       IN  \/ \E raises1, raises2 \in BOOLEAN :
                 LET sent == [rec EXCEPT !.voices = @ + 1,
                                         !.answer_file_path = rec.filepath]
                     fin  == Finally(sent, files, raises1, raises2)
                 IN  /\ req' = [req EXCEPT ![r] = fin.rec]
                     /\ files' = fin.files
                     /\ age' = Present(age, fin.files)
           \/ /\ \E e \in TransportFaults :
                    req' = [req EXCEPT ![r] = Except(rec, "answer_voice", e, e.cls)]
              /\ UNCHANGED <<files, age>>
    /\ UNCHANGED <<user_threads, creates, stamp, dispatched>>
    /\ UNCHANGED rest

----------------------------------------------------------------------------
(* The except clauses and the finally blocks *)

\* the except clause sent its apology (message.answer(MessageText.error...));
\* the finally block is reached
HandleError(r) ==
    /\ At(r, "except")
    /\ \E raises1, raises2 \in BOOLEAN :
          LET rec == req[r]
              fin == Finally([RespondLeft(rec) EXCEPT
                                  !.apologies = @ + ApologiesSent(rec.branch)],
                             files, raises1, raises2)
          IN  /\ req' = [req EXCEPT ![r] = fin.rec]
              /\ files' = fin.files
              /\ age' = Present(age, fin.files)
    /\ UNCHANGED <<user_threads, creates, stamp, dispatched>>
    /\ UNCHANGED rest

\* handle_text, finally: msg.delete() removed the placeholder; then
\* `if answer_file_path: await delete_file(answer_file_path)`
FinallyMsgDelete(r) ==
    /\ At(r, "finally_msg_delete")
    /\ \E raises \in BOOLEAN :
          LET rec == [req[r] EXCEPT !.msg_deletes = @ + 1]
              a   == rec.answer_file_path
              out == IF a # NoPath THEN [rec EXCEPT !.dels = Append(@, a)] ELSE rec
              fs  == IF a # NoPath THEN delete_file(files, a, raises) ELSE files
          IN  /\ files' = fs
              /\ age' = Present(age, fs)
              /\ req' = [req EXCEPT ![r] =
                            IF rec.branch = "uncaught"
                            THEN Ended(out, "raised", rec.raised)
                            ELSE Ended(out, "returned", None)]
    /\ UNCHANGED <<user_threads, creates, stamp, dispatched>>
    /\ UNCHANGED rest

----------------------------------------------------------------------------
(* Time *)

InWait(r) == req[r].pc \in {"runs_retrieve", "sleep"}

\* Wall-clock time passes, TickSecs at a time: every running wait sees
\* time.time() grow, every asyncio.sleep in progress gets older.  The program
\* reads the clock only in _wait_for_run_completion, so time is let pass only
\* while some request sleeps there, and the time of a wait is followed up to
\* MaxClock, which lies past the deadline.
Tick ==
    /\ NoneEnded
    /\ \E r \in Req : req[r].pc = "sleep"
    /\ LET later == [r \in Req |->
                        IF InWait(r)
                        THEN [req[r] EXCEPT
                                 !.elapsed = IF @ < MaxClock THEN @ + TickSecs ELSE @,
                                 !.slept = IF req[r].pc = "sleep" THEN SleepSecs ELSE 0]
                        ELSE req[r]]
       IN  /\ later # req
           /\ req' = later
    /\ UNCHANGED <<user_threads, files, creates, stamp, dispatched>>
    /\ UNCHANGED <<age, rest>>

----------------------------------------------------------------------------
(* Specifications *)

\* the dispatcher is done with an ended handler; its frame is free again
Return(r) ==
    /\ req[r].pc = "done"
    /\ req' = [req EXCEPT ![r] = Idle]
    /\ UNCHANGED <<user_threads, files, creates, stamp, dispatched>>
    /\ UNCHANGED <<age, rest>>

Step ==
    \E r \in Req :
        \/ DownloadVoiceMessage(r)
        \/ SpeechToText(r)
        \/ AnswerHeard(r)
        \/ MsgDelete(r)
        \/ ThreadsCreate(r)
        \/ MessagesCreate(r)
        \/ RunsCreate(r)
        \/ RunsRetrieve(r)
        \/ Sleep(r)
        \/ MessagesList(r)
        \/ SpeechCreate(r)
        \/ AnswerVoice(r)
        \/ HandleError(r)
        \/ FinallyMsgDelete(r)
        \/ Return(r)

\* Requests interleave at every suspension point, also requests of one user.
Next ==
    \/ \E r \in Req, u \in Users, k \in Kinds, f \in FileIds : Dispatch(r, u, k, f)
    \/ Step
    \/ Tick

Spec == Init /\ [][Next]_vars

\* A user sends the next message only after the previous one was answered: no
\* two requests of the same user overlap.
DispatchInTurn(r, u, k, f) ==
    /\ \A q \in Req : InFlight(q) => req[q].user_id # u
    /\ Dispatch(r, u, k, f)

NextSerial ==
    \/ \E r \in Req, u \in Users, k \in Kinds, f \in FileIds : DispatchInTurn(r, u, k, f)
    \/ Step
    \/ Tick

SpecSerial == Init /\ [][NextSerial]_vars

\* The event loop resumes every handler whose awaited call has ended, every
\* awaited call ends (by returning or raising), and time passes.
FairSpec == Spec /\ WF_vars(Step) /\ WF_vars(Tick)

----------------------------------------------------------------------------
(* The artifact store on its own: a scratch directory as an earlier run of
   the process can have left it, delete_file and cleanup_old_files called on
   it *)

\* the files of the scratch directory the store is exercised on
StorePaths == {get_voice_path(u, f) : u \in Users, f \in FileIds}
                 \cup {response_path(1), response_path(2)}

\* ages around the threshold
Ages == {0, 599, 600, 601}

InitStore ==
    /\ req = [r \in Req |-> Idle]
    /\ user_threads = [u \in Users |-> NoThread]
    /\ creates = [u \in Users |-> 0]
    /\ stamp = 0
    /\ dispatched = 0
    /\ files \in SUBSET StorePaths
    /\ age \in [Paths -> Ages]
    /\ age = Present(age, files)
    /\ subdirs \in SUBSET Subdirs
    /\ store = NoCall
    /\ cleaner = Created
    /\ main = Polling
    /\ provider = Provided
    /\ client = Ready

\* await file_manager.delete_file(file_path): unlink() removes the file, or
\* raises
DeleteFile(file_path, unlink_raises) ==
    /\ files' = delete_file(files, file_path, unlink_raises)
    /\ age' = Present(age, files')
    /\ store' = [ NoCall EXCEPT
                    !.op = "delete_file", !.turn = 1 - store.turn,
                    !.path = file_path,
                    !.failed = IF file_path \in files /\ unlink_raises
                               THEN {file_path} ELSE {},
                    !.escaped = IF file_path \in files /\ unlink_raises
                                THEN delete_file_except("PermissionError")
                                ELSE None ]
    /\ UNCHANGED <<req, user_threads, creates, stamp, dispatched, subdirs, cleaner, main, api>>

\* one call of cleanup_old_files on the scratch directory: glob yields the
\* entries in some order and can fail on the way, stat() can raise on a file,
\* unlink() can raise on the files the sweep tries to remove
SweepStep ==
    \E listing \in Perms(files \cup subdirs) :
    \E yielded \in 0..Len(listing) :
    \E stat_raises \in {{}} \cup {{e} : e \in files} :
    \E unlink_raises \in SUBSET {e \in files : FileIsOld(age[e], max_age_seconds)} :
       LET out == cleanup_old_files(files, age, max_age_seconds, listing,
                                    yielded, stat_raises, unlink_raises)
       IN  /\ files' = out.files
           /\ age' = Present(age, out.files)
           /\ store' = [ NoCall EXCEPT
                           !.op = "cleanup_old_files", !.turn = 1 - store.turn,
                           !.count = out.count, !.failed = out.failed,
                           !.dir_error = out.dir_error ]

\* await file_manager.cleanup_old_files(): one sweep of the scratch directory.
\* It holds no suspension point that yields to the event loop (delete_file
\* awaits nothing), so the whole sweep is one step.
CleanupOldFiles ==
    /\ SweepStep
    /\ UNCHANGED <<req, user_threads, creates, stamp, dispatched, subdirs, cleaner, main, api>>

NextStore ==
    \/ \E file_path \in StorePaths, unlink_raises \in BOOLEAN :
          DeleteFile(file_path, unlink_raises)
    \/ CleanupOldFiles

SpecStore == InitStore /\ [][NextStore]_vars

----------------------------------------------------------------------------
(* main() and the periodic_cleanup task *)

\* periodic_cleanup, one turn of `while True`: the task runs for the first
\* time, or its asyncio.sleep(sleep) is over; it sweeps (cleanup_old_files
\* returns, whatever failed inside) and awaits asyncio.sleep(sleep) again
PeriodicCleanup ==
    /\ \/ cleaner.pc = "created"
       \/ cleaner.pc = "sleep" /\ cleaner.slept >= sleep
    /\ SweepStep
    /\ cleaner' = [pc |-> "sleep", slept |-> 0]
    /\ UNCHANGED <<req, user_threads, creates, stamp, dispatched, subdirs, main, api>>

\* Wall-clock time passes, PassSecs at a time: the files get older, the sleep
\* of the cleanup task and the waits of the requests go on.
Pass ==
    /\ NoneEnded
    /\ LET older == [p \in Paths |->
                        IF p \in files
                        THEN (IF age[p] + PassSecs < MaxAge THEN age[p] + PassSecs
                              ELSE IF age[p] < MaxAge THEN MaxAge ELSE age[p])
                        ELSE 0]
           slept == IF cleaner.pc = "sleep"
                    THEN [cleaner EXCEPT !.slept = IF @ + PassSecs < sleep
                                                   THEN @ + PassSecs ELSE sleep]
                    ELSE cleaner
           later == [r \in Req |->
                        IF InWait(r)
                        THEN [req[r] EXCEPT
                                 !.elapsed = IF @ + PassSecs < MaxClock
                                             THEN @ + PassSecs ELSE MaxClock,
                                 !.slept = IF req[r].pc = "sleep" THEN SleepSecs ELSE 0]
                        ELSE req[r]]
       IN  /\ <<older, slept, later>> # <<age, cleaner, req>>
           /\ age' = older
           /\ cleaner' = slept
           /\ req' = later
    /\ UNCHANGED <<user_threads, files, creates, stamp, dispatched, subdirs, store, main, api>>

\* main(): `await bot.start_polling()` has ended, by return, by the
\* RuntimeError start_polling raises, or by a cancellation; the except clause
\* and the finally block run: cleanup_task.cancel()
StartPollingEnds(exit) ==
    /\ main.pc = "start_polling"
    /\ main' = [pc |-> "done", exit |-> exit]
    /\ cleaner' = IF MainExit(exit).cancelled
                  THEN [pc |-> "cancelled", slept |-> 0] ELSE cleaner
    /\ UNCHANGED <<req, user_threads, files, creates, stamp, dispatched, age,
                   subdirs, store, api>>

\* The bot serves requests, one of a user at a time, while the cleanup task
\* sweeps and sleeps.  The first sweep runs at startup, over the empty
\* directory, before a message is dispatched: the state after it is where
\* this starts.
InitPeriodic ==
    /\ req = [r \in Req |-> Idle]
    /\ user_threads = [u \in Users |-> NoThread]
    /\ files = {}
    /\ creates = [u \in Users |-> 0]
    /\ stamp = 0
    /\ dispatched = 0
    /\ age = [p \in Paths |-> 0]
    /\ subdirs = {}
    /\ store = [NoCall EXCEPT !.op = "cleanup_old_files", !.turn = 1]
    /\ cleaner = [pc |-> "sleep", slept |-> 0]
    /\ main = Polling
    /\ provider = Provided
    /\ client = Ready

NextPeriodic ==
    \/ \E r \in Req, u \in Users, k \in Kinds, f \in FileIds : DispatchInTurn(r, u, k, f)
    \/ Step
    \/ Pass
    \/ PeriodicCleanup

SpecPeriodic == InitPeriodic /\ [][NextPeriodic]_vars

\* main() and its cleanup task alone, over a scratch directory as an earlier
\* run can have left it
InitMain ==
    /\ req = [r \in Req |-> Idle]
    /\ user_threads = [u \in Users |-> NoThread]
    /\ creates = [u \in Users |-> 0]
    /\ stamp = 0
    /\ dispatched = 0
    /\ files \in SUBSET StorePaths
    /\ age \in [Paths -> {0, MaxAge}]
    /\ age = Present(age, files)
    /\ subdirs \in SUBSET Subdirs
    /\ store = NoCall
    /\ cleaner = Created
    /\ main = Polling
    /\ provider = Provided
    /\ client = Ready

NextMain ==
    \/ PeriodicCleanup
    \/ Pass
    \/ \E exit \in {"returned", "RuntimeError", "CancelledError"} : StartPollingEnds(exit)

SpecMain == InitMain /\ [][NextMain]_vars

\* The event loop runs the cleanup task when it is ready, and time passes.
FairMain == SpecMain /\ WF_vars(PeriodicCleanup) /\ WF_vars(Pass)

----------------------------------------------------------------------------
(* The conversation client on its own: initialize_assistant against a
   provider that holds some assistants, _extract_assistant_response against a
   conversation that holds some messages *)

\* the assistants a provider account can hold, newest first
AssistantLists ==
    LET names == {AssistantName, "other"}
    IN  {<<>>}
          \cup {<<[id |-> 1, name |-> n]>> : n \in names}
          \cup {<<[id |-> 2, name |-> n], [id |-> 1, name |-> m]>> : n, m \in names}

\* the parts of a message: text parts, and one that has no text
Parts == [type : {"text"}, value : {<<"Hi">>, <<"there">>}]
            \cup {[type |-> "image_file", value |-> <<>>]}

\* the messages of a conversation
ThreadMessages ==
    { [role |-> "user", content |-> <<[type |-> "text", value |-> <<"Hello">>]>>] }
      \cup [role : {"assistant"},
            content : {<<[type |-> "text", value |-> <<"Hi">>]>>,
                       <<[type |-> "text", value |-> <<"Hi">>],
                         [type |-> "text", value |-> <<"there">>]>>,
                       <<[type |-> "image_file", value |-> <<>>],
                         [type |-> "text", value |-> <<"there">>]>>,
                       <<[type |-> "image_file", value |-> <<>>]>>}]

InitClient ==
    /\ req = [r \in Req |-> Idle]
    /\ user_threads = [u \in Users |-> NoThread]
    /\ files = {}
    /\ creates = [u \in Users |-> 0]
    /\ stamp = 0
    /\ dispatched = 0
    /\ age = [p \in Paths |-> 0]
    /\ subdirs = {}
    /\ store = NoCall
    /\ cleaner = Created
    /\ main = Polling
    /\ provider \in [ assistants : AssistantLists,
                      messages : UNION {[1..n -> ThreadMessages] : n \in 0..MaxMessages} ]
    /\ client = Booting

\* initialize_assistant: assistants.list(limit=1) returned or raised.  An
\* assistant found is stored; else assistants.create is awaited; an exception
\* leaves initialize_assistant
AssistantsList ==
    /\ client.pc = "assistants_list"
    /\ \/ LET data == assistants_list(provider.assistants, 1)
          IN  client' = IF FoundExisting(data)
                        THEN [client EXCEPT !.pc = "ready", !.assistant_id = data[1].id]
                        ELSE [client EXCEPT !.pc = "assistants_create"]
       \/ \E e \in ProviderFaults :
             client' = [client EXCEPT !.pc = "failed", !.escaped = e.cls]
    /\ UNCHANGED <<req, user_threads, files, creates, stamp, dispatched, age,
                   subdirs, store, cleaner, main, provider>>

\* initialize_assistant: assistants.create(name='tg-ai-voice-bot', ...) returned
\* the new assistant, whose id is stored, or raised
AssistantsCreate ==
    /\ client.pc = "assistants_create"
    /\ \/ LET assistant == [id |-> Len(provider.assistants) + 1, name |-> AssistantName]
          IN  /\ provider' = [provider EXCEPT !.assistants = <<assistant>> \o @]
              /\ client' = [client EXCEPT !.pc = "ready", !.created = @ + 1,
                                          !.assistant_id = assistant.id]
       \/ /\ \E e \in ProviderFaults :
                client' = [client EXCEPT !.pc = "failed", !.escaped = e.cls]
          /\ UNCHANGED provider
    /\ UNCHANGED <<req, user_threads, files, creates, stamp, dispatched, age,
                   subdirs, store, cleaner, main>>

\* _extract_assistant_response(thread_id): messages.list returned the messages of
\* the conversation, or raised
ExtractAssistantResponse(thread_id) ==
    /\ \/ LET out == extract_assistant_response(messages_list(provider.messages),
                                                thread_id)
          IN  client' = [client EXCEPT !.reply =
                            [NoReply EXCEPT !.called = TRUE, !.given = thread_id,
                                            !.text = out.text,
                                            !.thread_id = out.thread_id]]
       \/ \E e \in ProviderFaults :
             client' = [client EXCEPT !.reply =
                           [NoReply EXCEPT !.called = TRUE, !.given = thread_id,
                                           !.cause = e, !.escaped = e.cls]]
    /\ UNCHANGED <<req, user_threads, files, creates, stamp, dispatched, age,
                   subdirs, store, cleaner, main, provider>>

NextClient ==
    \/ AssistantsList
    \/ AssistantsCreate
    \/ \E thread_id \in {1, 2} : ExtractAssistantResponse(thread_id)

SpecClient == InitClient /\ [][NextClient]_vars

----------------------------------------------------------------------------
(* Claims *)

\* the number of times path p was passed to delete_file
Deletes(rec, p) == Cardinality({i \in DOMAIN rec.dels : rec.dels[i] = p})

\* C1: when a handler has finished, with or without a fault in one of its
\* steps, every artifact file it created has been passed to delete_file
\* exactly once.
C1_CleanupComplete ==
    \A r \in Req :
        req[r].pc = "done" => \A p \in req[r].made : Deletes(req[r], p) = 1

\* C2: no fault escapes the handler: whatever step failed, the handler sends
\* the apology and returns normally.
C2_NoFaultEscapes ==
    \A r \in Req :
        req[r].pc = "done" =>
            /\ req[r].result = "returned"
            /\ req[r].op # None => req[r].apologies = 1

\* C3: the "processing" placeholder is deleted exactly once before the handler
\* finishes; in the voice variant right after the transcription is shown.
C3_PlaceholderDeletedOnce ==
    \A r \in Req :
        /\ req[r].pc = "done" => req[r].msg_deletes = 1
        /\ req[r].msg_deletes <= 1
        /\ (req[r].kind = "voice" /\ req[r].heard = 1 /\ req[r].pc # "msg_delete")
              => req[r].msg_deletes = 1

C5_TimeoutFault ==
    \A r \in Req :
        (req[r].pc = "except" /\ req[r].wait = "timeout") =>
            /\ req[r].raised = "OpenAITimeoutError"
            /\ req[r].branch = "timeout"

\* how the wait of handler r stands, in one state
WaitStateOk(r) ==
    LET rec == req[r] IN
    /\ InWait(r) => rec.wait = "polling"
    \* it sleeps only after a status that ends nothing
    /\ rec.pc = "sleep" => rec.status \notin {"completed", "failed", "cancelled", "expired"}
    \* it returned exactly when "completed" was reported: messages.list is
    \* awaited, or has raised
    /\ rec.wait = "completed" <=> rec.status = "completed"
    /\ rec.wait = "completed" =>
          \/ rec.pc = "messages_list"
          \/ rec.pc = "except" /\ rec.cause \in ProviderFaults
    \* a failed run: OpenAIServiceError naming the status
    /\ rec.wait = "failed" <=> rec.status \in {"failed", "cancelled", "expired"}
    /\ rec.wait = "failed" =>
          /\ rec.pc = "except"
          /\ rec.cause = [cls |-> "OpenAIServiceError", msg |-> <<"run", "status", rec.status>>]
    \* the deadline: the wait raised its timeout error
    /\ rec.wait = "timeout" =>
          rec.pc = "except" /\ rec.cause.cls = "OpenAITimeoutError"

\* one step of the wait of handler r
WaitStepOk(r) ==
    LET rec == req[r]
        new == req'[r]
    IN
    \* a status is retrieved only at the start of the wait or after a sleep that
    \* lasted its second, and only with the deadline not passed
    /\ (new.pc = "runs_retrieve" /\ rec.pc # "runs_retrieve") =>
          /\ rec.pc = "runs_create" \/ (rec.pc = "sleep" /\ rec.slept >= 1)
          /\ new.elapsed <= 60
    \* the wait gives up only past the deadline, and there it does
    /\ (new.wait = "timeout" /\ rec.wait # "timeout") => rec.pc = "sleep" /\ rec.elapsed > 60
    /\ (rec.pc = "sleep" /\ new.pc # "sleep" /\ rec.elapsed > 60) => new.wait = "timeout"
    \* once a status ended the wait, no status is retrieved again in that call
    /\ rec.wait \in {"completed", "failed", "timeout", "raised"} =>
          new.pc \notin {"runs_retrieve", "sleep"}

\* C6: the run-completion wait ends in one of three ways: it returns at the
\* poll that reports "completed"; it raises OpenAIServiceError naming the
\* status at the poll that reports "failed", "cancelled" or "expired"; it
\* gives up once the elapsed time exceeds the timeout.  It never polls again
\* after a status that ends it, and it always ends.
C6_WaitOutcomes ==
    /\ [](\A r \in Req : WaitStateOk(r))
    /\ [][\A r \in Req : WaitStepOk(r)]_vars
    /\ \A r \in Req : InWait(r) ~> ~InWait(r)

\* a wait has ended at a poll that reported "expired"
C6_Witness ==
    \E r \in Req :
        req[r].pc = "except" /\ req[r].wait = "failed" /\ req[r].status = "expired"

\* the fault kind the claim gives to a failure raised inside respond()
ClaimedKind(e) ==
    IF e.cls \in {"asyncio.TimeoutError", "OpenAITimeoutError"} THEN "OpenAITimeoutError"
    ELSE IF \/ Contains(Lower(e.msg), <<"rate_limit">>)
            \/ Contains(Lower(e.msg), <<"too", "many", "requests">>)
         THEN "OpenAIRateLimitError"
         ELSE "OpenAIServiceError"

\* C7: every failure leaving a client operation is one of the three fault
\* kinds: out of respond(), OpenAITimeoutError for a timeout,
\* OpenAIRateLimitError for a rate-limit message, OpenAIServiceError otherwise;
\* out of speech_to_text() and text_to_speech(), OpenAIServiceError.
C7_FaultKinds ==
    \A r \in Req :
        req[r].pc = "except" =>
            /\ req[r].op = "respond" => req[r].raised = ClaimedKind(req[r].cause)
            /\ req[r].op \in {"speech_to_text", "text_to_speech"}
                  => req[r].raised = "OpenAIServiceError"

\* respond() of handler r has returned
Responded(r) == req[r].pc \in {"speech_create", "answer_voice"}

\* C8: respond() called with a conversation id creates no conversation and
\* returns that id; a call without one creates exactly one.  So two calls in
\* a row, the second given the id the first returned, create one conversation
\* and return the same id.
C8_ReuseGivenThread ==
    \A r \in Req :
        /\ req[r].param # NoThread => req[r].created = 0 /\ req[r].thread_id = req[r].param
        /\ (Responded(r) /\ req[r].param = NoThread)
              => req[r].created = 1 /\ req[r].thread_id # NoThread

\* respond() was given the id an earlier call returned, and has returned
C8_Witness ==
    \E r \in Req :
        Responded(r) /\ req[r].param # NoThread /\ creates[req[r].user_id] = 1

\* C9: over requests of one user that do not overlap, failed ones included,
\* the provider is asked to create a conversation at most once for that user.
C9_AtMostOneCreate == \A u \in Users : creates[u] <= 1

\* C10: once a user's registry entry is set, no step changes or removes it.
C10_EntryNeverChanges ==
    [][\A u \in Users :
          user_threads[u] # NoThread => user_threads'[u] = user_threads[u]]_vars

\* C10, amended: once set, the entry is never removed, and the only step that
\* changes it is the registry write of a request of that user whose own read
\* of the registry is stale: it read the registry before the entry had its
\* present value, which takes an overlapping request of the same user.
C10_EntryChangesOnlyByStaleWrite ==
    [][\A u \in Users :
          user_threads[u] # NoThread =>
              /\ user_threads'[u] # NoThread
              /\ user_threads'[u] # user_threads[u] =>
                    \E r \in Req :
                        /\ req[r].user_id = u
                        /\ req[r].pc = "messages_list"
                        /\ req[r].param # user_threads[u]
                        /\ user_threads'[u] = req[r].thread_id]_vars

\* a request that read the entry has written the registry, next to another
\* request in flight, and the entry is as it read it
C10_Witness ==
    \E r, q \in Req :
        /\ r # q
        /\ InFlight(q)
        /\ Responded(r)
        /\ req[r].param # NoThread
        /\ user_threads[req[r].user_id] = req[r].param

\* the place of an awaited call in the sequence download, transcribe, show the
\* transcription, respond, synthesize, upload; 0 for the awaits outside it
StepOf(pc) ==
    CASE pc = "download" -> 1
      [] pc = "speech_to_text" -> 2
      [] pc \in {"answer_heard", "msg_delete"} -> 3
      [] pc \in {"threads_create", "messages_create", "runs_create",
                 "runs_retrieve", "sleep", "messages_list"} -> 4
      [] pc = "speech_create" -> 5
      [] pc = "answer_voice" -> 6
      [] OTHER -> 0

\* what the steps that came before have left behind when handler r is in a step
StepStateOk(r) ==
    LET rec == req[r] IN
    \* respond only after the transcription returned and was shown
    /\ (StepOf(rec.pc) >= 4 /\ rec.kind = "voice") =>
          /\ rec.voice_file_path \in rec.made
          /\ rec.heard = 1
    \* text_to_speech only after respond returned a conversation
    /\ StepOf(rec.pc) >= 5 => rec.thread_id # NoThread /\ rec.filepath # NoPath
    \* the upload only after text_to_speech wrote its file
    /\ StepOf(rec.pc) = 6 => rec.filepath \in rec.made
    \* while a fault is handled and after it, nothing of a later step is there
    /\ (rec.pc \in {"except", "finally_msg_delete", "done"} /\ rec.op # None) =>
          rec.voices = 0

\* one move of handler r
StepOrderOk(r) ==
    LET rec == req[r]
        new == req'[r]
    IN  (new.pc # rec.pc /\ StepOf(new.pc) > 0) =>
            \* a step is entered from the step before it, or is the first one
            /\ IF rec.pc = "idle"
               THEN StepOf(new.pc) = IF new.kind = "voice" THEN 1 ELSE 4
               ELSE StepOf(rec.pc) > 0
                    /\ StepOf(new.pc) \in {StepOf(rec.pc), StepOf(rec.pc) + 1}
            \* never out of the except clauses or the finally block
            /\ rec.pc \notin {"except", "finally_msg_delete", "done"}

\* C11: within a request the steps run in the order download, transcribe, show
\* the transcription, respond, synthesize, upload (a text request starts at
\* respond); a step starts only after the one before it has returned, and
\* after the first failing step only the apology and the cleanup run.
C11_StepsInOrder ==
    /\ [](\A r \in Req : StepStateOk(r))
    /\ [][\A r \in Req : StepOrderOk(r)]_vars

\* a voice request has come through every step up to the upload
C11_Witness ==
    \E r \in Req :
        /\ req[r].pc = "answer_voice"
        /\ req[r].kind = "voice"
        /\ req[r].heard = 1
        /\ req[r].filepath \in files

\* request q is in the awaited call that reads artifact p, which q created
Using(q, p) ==
    \/ req[q].pc = "speech_to_text" /\ req[q].voice_file_path = p
    \/ req[q].pc = "answer_voice" /\ req[q].filepath = p

\* C12: no request's cleanup deletes, and no request's download overwrites, an
\* artifact that another request created and is still using.
C12_ArtifactsNotShared ==
    [][\A q \in Req : \A p \in Paths :
          (Using(q, p) /\ req'[q] = req[q]) =>
              /\ p \in files'
              /\ \A r \in Req \ {q} :
                    ~(/\ req[r].pc = "download"
                      /\ req'[r].pc = "speech_to_text"
                      /\ req'[r].voice_file_path = p)]_vars

\* this step is a call of cleanup_old_files
Swept == store'.op = "cleanup_old_files" /\ store'.turn # store.turn

\* the regular files over the age threshold
OverAge == {p \in files : age[p] > 600}

\* C13: cleanup_old_files deletes exactly the regular files whose age exceeds
\* max_age_seconds and leaves every other entry in place: whatever fails, it
\* removes nothing else, and when nothing fails it removes them all.  A file
\* aged exactly 600 s stays.
C13_SweepDeletesOverAge ==
    [][Swept =>
          /\ files \ files' \subseteq OverAge
          /\ files' \subseteq files
          /\ subdirs' = subdirs
          /\ (store'.failed = {} /\ ~store'.dir_error) => files' = files \ OverAge]_vars

\* a sweep without a failure has removed a file and kept one aged 600 s
C13_Witness ==
    /\ store.op = "cleanup_old_files"
    /\ store.failed = {} /\ ~store.dir_error
    /\ store.count >= 1
    /\ \E p \in files : age[p] = 600

\* C14: an error on one file does not end the scan: absent a directory-level
\* error, every over-age file whose own stat() and unlink() did not fail is
\* gone after the sweep.
C14_SweepToleratesFileErrors ==
    [][(Swept /\ ~store'.dir_error) =>
          \A p \in OverAge : p \notin store'.failed => p \notin files']_vars

\* this step is a call of delete_file
Unlinked == store'.op = "delete_file" /\ store'.turn # store.turn

\* C15: delete_file removes an existing file, changes nothing on a missing
\* path (a second call included) or when the removal fails, and returns
\* normally in every case.
C15_DeleteFileIdempotent ==
    /\ [][Unlinked =>
            LET p == store'.path IN
            /\ store'.escaped = None
            /\ (p \in files /\ store'.failed = {}) => files' = files \ {p}
            /\ (p \notin files \/ store'.failed # {}) => files' = files
            /\ \A q \in Paths \ {p} : q \in files' <=> q \in files]_vars
    /\ [](\A p \in Paths : \A x \in BOOLEAN :
            LET once == delete_file(files, p, FALSE)
            IN  delete_file(once, p, x) = once)

\* delete_file was called on a file whose removal failed, and returned
C15_Witness ==
    /\ store.op = "delete_file"
    /\ store.failed # {}
    /\ store.path \in files
    /\ store.escaped = None

\* C19: the number cleanup_old_files returns is the number of files the sweep
\* removed.
C19_CountIsRemoved ==
    [][Swept => store'.count = Cardinality(files \ files')]_vars

\* C18: the periodic sweep removes no artifact of a request that is still
\* running: a file is deleted by cleanup_old_files only after the request that
\* created it has ended.
C18_SweepSparesRunningRequests ==
    [][Swept =>
          \A q \in Req :
              (InFlight(q) /\ req[q].pc # "done") =>
                  req[q].made \cap (files \ files') = {}]_vars

\* C20: the cleanup task runs as long as the process: it sweeps when it is
\* first run and then each time it has slept the whole interval, after every
\* sweep (also one that met an error) it sleeps again, while main() awaits
\* start_polling the next sweep always comes, and the task stops exactly when
\* main() leaves start_polling, by whatever exit.
C20_SweepRunsUntilShutdown ==
    /\ [](cleaner.pc = "cancelled" <=> main.pc = "done")
    /\ [][Swept =>
            /\ cleaner.pc = "created" \/ (cleaner.pc = "sleep" /\ cleaner.slept >= 3600)
            /\ cleaner'.pc = "sleep" /\ cleaner'.slept = 0]_vars
    /\ [][cleaner'.pc # cleaner.pc =>
            \/ cleaner.pc = "created" /\ cleaner'.pc = "sleep"
            \/ cleaner'.pc = "cancelled" /\ main'.pc = "done"]_vars
    /\ \A t \in {0, 1} :
          (store.turn = t) ~> (store.turn # t \/ main.pc = "done")

\* the task has swept again after a sweep that met an error, and was then
\* cancelled by a main() that an exception left
C20_Witness ==
    /\ cleaner.pc = "cancelled"
    /\ main.exit = "CancelledError"
    /\ store.op = "cleanup_old_files"
    /\ store.turn = 0
    /\ store.failed # {}

\* the provider's assistants that carry the fixed name, by position
Named == {i \in DOMAIN provider.assistants :
             provider.assistants[i].name = "tg-ai-voice-bot"}

\* C16: initialize_assistant reuses an existing assistant: when the provider
\* holds one with the fixed name it stores that id and creates none; only when
\* there is none does it create one, once, and store the new id; when the
\* lookup or the create call fails, no id is stored.
C16_BootstrapReuses ==
    /\ client.created <= 1
    /\ client.pc = "ready" =>
          /\ \E i \in Named : provider.assistants[i].id = client.assistant_id
          \* the assistant it created is the only one with the name
          /\ client.created = 1 => Named = {1}
    /\ client.pc = "failed" =>
          client.assistant_id = 0 /\ client.escaped # None

\* the conversation's assistant-authored messages, by position (oldest first)
ByAssistant == {i \in DOMAIN provider.messages : provider.messages[i].role = "assistant"}

\* C17: reply extraction returns the space-joined text segments of the most
\* recent assistant-authored message, or the fixed fallback, without raising,
\* when the conversation holds none; the conversation id comes back unchanged.
C17_ReplyExtraction ==
    (client.reply.called /\ client.reply.cause = NoError) =>
        /\ client.reply.escaped = None
        /\ client.reply.thread_id = client.reply.given
        /\ IF ByAssistant = {}
           THEN client.reply.text = <<"no", " ", "answer">>
           ELSE LET last == CHOOSE i \in ByAssistant : \A j \in ByAssistant : j <= i
                    segs == content_texts(provider.messages[last].content)
                IN  client.reply.text = join(<<" ">>, segs)

\* the reply was taken from the later of two assistant messages that differ
C17_Witness ==
    /\ client.reply.called /\ client.reply.cause = NoError
    /\ \E i, j \in ByAssistant :
          /\ i < j
          /\ provider.messages[i].content # provider.messages[j].content
          /\ client.reply.text = <<"Hi", " ", "there">>
          /\ Len(provider.messages[j].content) = 2
          /\ \A k \in ByAssistant : k <= j

====
